---- MODULE Spec2Model ----
(***************************************************************************)
(* A model of the ByteRun virtual machine (src/byterun.py): frames, the    *)
(* operand and block stacks, the decoder, dispatch, the block-stack        *)
(* unwinder, the call convention and the run_frame driver loop.            *)
(***************************************************************************)
EXTENDS Integers, Sequences, FiniteSets, Bags, TLC

(***************************************************************************)
(* Bounds of the model.                                                    *)
(***************************************************************************)
\* number of top-level run_code calls made on one VirtualMachine instance
MaxRuns == 1
\* the same, where the outcomes of the runs are compared with each other
MaxReruns == 3
\* largest number of items of the iterable a loop program walks over
MaxItems == 14

(***************************************************************************)
(* The host value model.  Every value is a record of the same shape:       *)
(*   t  the host type, n/d an integer (or the fraction n/d of a float),    *)
(*   c  a name (a string's text, a code object's family),                  *)
(*   s  the items of a tuple / list, the items an iterator has left, or    *)
(*      a function's default values.                                       *)
(***************************************************************************)
Val(t, n, d, c, s) == [t |-> t, n |-> n, d |-> d, c |-> c, s |-> s]

\* F(x), with x evaluated once however often F uses it
With(x, F(_)) == CHOOSE r \in {F(v) : v \in {x}} : TRUE

NoneV == Val("none", 0, 1, "", <<>>)

IntV(i) == Val("int", i, 1, "", <<>>)

BoolV(b) == Val("bool", IF b THEN 1 ELSE 0, 1, "", <<>>)

StrV(c) == Val("str", 0, 1, c, <<>>)

TupleV(s) == Val("tuple", 0, 1, "", s)

ListV(s) == Val("list", 0, 1, "", s)

DictV == Val("dict", 0, 1, "", <<>>)

IterV(s) == Val("iterator", 0, 1, "", s)

\* an iterator that never ends (itertools.cycle(s)): next gives the items
\* of s over and over
CycleV(s) == Val("iterator", 0, 1, "cycle", s)

\* a code object of family c with the two parameters n and d
CodeV(c, n, d) == Val("code", n, d, c, <<>>)

\* a host builtin callable (print, exit, ...), named c
BuiltinV(c) == Val("builtin", 0, 1, c, <<>>)

Abs(i) == IF i < 0 THEN -i ELSE i

RECURSIVE Gcd(_, _)
Gcd(a, b) == IF b = 0 THEN a ELSE Gcd(b, a % b)

\* the float n/d, kept as a reduced fraction with a positive denominator
FloatV(n, d) ==
    LET g == Gcd(Abs(n), Abs(d))
        sg == IF d < 0 THEN -1 ELSE 1
    IN  Val("float", sg * (n \div g), sg * (d \div g), "", <<>>)

IsInt(v) == v.t \in {"int", "bool"}

IsNum(v) == v.t \in {"int", "bool", "float"}

\* truth value of a host value (bool(x))
Truthy(v) ==
    CASE v.t = "none" -> FALSE
      [] IsNum(v) -> v.n # 0
      [] v.t \in {"tuple", "list"} -> Len(v.s) > 0
      [] v.t = "str" -> v.c # ""
      [] OTHER -> TRUE

\* the outcome of a host operation: a value, or a raised exception type
Ok(v) == [exc |-> "None", v |-> v]

Raise(e) == [exc |-> e, v |-> NoneV]

RECURSIVE Pow(_, _)
Pow(a, b) == IF b = 0 THEN 1 ELSE a * Pow(a, b - 1)

\* Python's floor division and modulo of integers, b # 0
FloorDiv(a, b) == a \div b

PyMod(a, b) == IF b > 0 THEN a % b ELSE -((-a) % (-b))

RECURSIVE BitOp(_, _, _)
\* bitwise and / or / xor of two's complement integers of any sign
BitOp(k, a, b) ==
    IF a \in {0, -1} /\ b \in {0, -1}
    THEN LET x == (a = -1)
             y == (b = -1)
             r == CASE k = "AND" -> x /\ y
                    [] k = "OR" -> x \/ y
                    [] OTHER -> x # y
         IN  IF r THEN -1 ELSE 0
    ELSE LET x == (a % 2 = 1)
             y == (b % 2 = 1)
             r == CASE k = "AND" -> x /\ y
                    [] k = "OR" -> x \/ y
                    [] OTHER -> x # y
         IN  2 * BitOp(k, a \div 2, b \div 2) + (IF r THEN 1 ELSE 0)

\* operator.<k>(x, y) of the host, x the left and y the right operand.
\* Arithmetic is modelled on int/bool operands (true division yields a
\* float); operands of the other types raise TypeError, except indexing.
HostBinary(k, x, y) ==
    IF k = "SUBSCR"
    THEN IF x.t \in {"tuple", "list"} /\ IsInt(y)
         THEN LET i == IF y.n < 0 THEN y.n + Len(x.s) ELSE y.n
              IN  IF i >= 0 /\ i < Len(x.s) THEN Ok(x.s[i + 1])
                  ELSE Raise("IndexError")
         ELSE Raise("TypeError")
    ELSE IF ~(IsInt(x) /\ IsInt(y)) \/ k = "MATMUL" THEN Raise("TypeError")
    ELSE LET a == x.n
             b == y.n
         IN  CASE k = "ADD" -> Ok(IntV(a + b))
               [] k = "SUBTRACT" -> Ok(IntV(a - b))
               [] k = "MULTIPLY" -> Ok(IntV(a * b))
               [] k = "FLOOR_DIVIDE" ->
                    IF b = 0 THEN Raise("ZeroDivisionError")
                    ELSE Ok(IntV(FloorDiv(a, b)))
               [] k = "TRUE_DIVIDE" ->
                    IF b = 0 THEN Raise("ZeroDivisionError")
                    ELSE Ok(FloatV(a, b))
               [] k = "MODULO" ->
                    IF b = 0 THEN Raise("ZeroDivisionError")
                    ELSE Ok(IntV(PyMod(a, b)))
               [] k = "POWER" ->
                    IF b >= 0 THEN Ok(IntV(Pow(a, b)))
                    ELSE IF a = 0 THEN Raise("ZeroDivisionError")
                    ELSE Ok(FloatV(1, Pow(a, -b)))
               [] k = "LSHIFT" ->
                    IF b < 0 THEN Raise("ValueError")
                    ELSE Ok(IntV(a * Pow(2, b)))
               [] k = "RSHIFT" ->
                    IF b < 0 THEN Raise("ValueError")
                    ELSE Ok(IntV(a \div Pow(2, b)))
               [] k \in {"AND", "OR", "XOR"} -> Ok(IntV(BitOp(k, a, b)))
               [] OTHER -> Raise("KeyError")

\* BINARY_OPERATORS: the operator names binaryOperator knows
BINARY_OPERATORS ==
    {"POWER", "MULTIPLY", "FLOOR_DIVIDE", "TRUE_DIVIDE", "MODULO", "ADD",
     "SUBTRACT", "SUBSCR", "LSHIFT", "RSHIFT", "AND", "XOR", "OR"}

\* the BINARY_OPS table of byte_BINARY_OP, index 0..12
BINARY_OPS ==
    <<"ADD", "AND", "FLOOR_DIVIDE", "LSHIFT", "MATMUL", "MULTIPLY", "MODULO",
      "OR", "POWER", "RSHIFT", "SUBTRACT", "TRUE_DIVIDE", "XOR">>

\* numeric order of two numbers as fractions: -1, 0 or 1
NumCmp(x, y) ==
    LET l == x.n * y.d
        r == y.n * x.d
    IN  IF l < r THEN -1 ELSE IF l = r THEN 0 ELSE 1

HostEq(x, y) == IF IsNum(x) /\ IsNum(y) THEN NumCmp(x, y) = 0 ELSE x = y

\* COMPARE_OPERATORS[opnum](x, y)
HostCompare(opnum, x, y) ==
    CASE opnum \in {0, 1, 4, 5} ->
            IF IsNum(x) /\ IsNum(y)
            THEN LET c == NumCmp(x, y)
                 IN  Ok(BoolV(CASE opnum = 0 -> c < 0
                                [] opnum = 1 -> c <= 0
                                [] opnum = 4 -> c > 0
                                [] OTHER -> c >= 0))
            ELSE Raise("TypeError")
      [] opnum = 2 -> Ok(BoolV(HostEq(x, y)))
      [] opnum = 3 -> Ok(BoolV(~HostEq(x, y)))
      [] opnum \in {6, 7} ->
            IF y.t \in {"tuple", "list"}
            THEN LET in == \E i \in 1..Len(y.s) : HostEq(x, y.s[i])
                 IN  Ok(BoolV(IF opnum = 6 THEN in ELSE ~in))
            ELSE Raise("TypeError")
      [] opnum \in {8, 9} -> Ok(BoolV(IF opnum = 8 THEN x = y ELSE x # y))
      [] opnum = 10 -> Raise("TypeError")
      [] OTHER -> Raise("IndexError")

(***************************************************************************)
(* The instruction set.  dis.opname and dis.HAVE_ARGUMENT are the host's   *)
(* tables; the model takes the CPython 3.7 numbering, the one in which the *)
(* loop and block opcodes the VM handles exist, and gives the later        *)
(* opcodes the VM also handles (BINARY_OP, CALL, RESUME, PRECALL, COPY,    *)
(* SWAP) free numbers above HAVE_ARGUMENT.                                 *)
(***************************************************************************)
opcode ==
    [CACHE |-> 0, POP_TOP |-> 1, NOP |-> 9,
     UNARY_POSITIVE |-> 10, UNARY_NEGATIVE |-> 11, UNARY_NOT |-> 12,
     UNARY_INVERT |-> 15, BINARY_MATRIX_MULTIPLY |-> 16,
     BINARY_POWER |-> 19, BINARY_MULTIPLY |-> 20, BINARY_MODULO |-> 22,
     BINARY_ADD |-> 23, BINARY_SUBTRACT |-> 24, BINARY_SUBSCR |-> 25,
     BINARY_FLOOR_DIVIDE |-> 26, BINARY_TRUE_DIVIDE |-> 27,
     GET_AITER |-> 50, GET_ANEXT |-> 51, BEFORE_ASYNC_WITH |-> 52,
     BEFORE_WITH |-> 53, INPLACE_ADD |-> 55,
     BINARY_LSHIFT |-> 62, BINARY_RSHIFT |-> 63, BINARY_AND |-> 64,
     BINARY_XOR |-> 65, BINARY_OR |-> 66, GET_ITER |-> 68,
     GET_AWAITABLE |-> 73, BREAK_LOOP |-> 80, RETURN_VALUE |-> 83,
     POP_BLOCK |-> 87, END_FINALLY |-> 88, POP_EXCEPT |-> 89,
     STORE_NAME |-> 90, FOR_ITER |-> 93, SWAP |-> 99, LOAD_CONST |-> 100,
     LOAD_NAME |-> 101, BUILD_LIST |-> 103, COMPARE_OP |-> 107,
     JUMP_FORWARD |-> 110, JUMP_ABSOLUTE |-> 113, POP_JUMP_IF_FALSE |-> 114,
     POP_JUMP_IF_TRUE |-> 115, LOAD_GLOBAL |-> 116, CONTINUE_LOOP |-> 119,
     SETUP_LOOP |-> 120, SETUP_EXCEPT |-> 121, SETUP_FINALLY |-> 122,
     LOAD_FAST |-> 124, STORE_FAST |-> 125, RAISE_VARARGS |-> 130,
     CALL_FUNCTION |-> 131, MAKE_FUNCTION |-> 132, COPY |-> 140,
     BINARY_OP |-> 141, RESUME |-> 151, PRECALL |-> 166, CALL |-> 171]

\* dis.opname: the name of every byte, "<unnamed>" where no opcode is defined
opname ==
    [b \in 0..255 |->
        IF \E k \in DOMAIN opcode : opcode[k] = b
        THEN CHOOSE k \in DOMAIN opcode : opcode[k] = b
        ELSE "<unnamed>"]

\* dis.HAVE_ARGUMENT: opcodes from here on take a two-byte operand
HAVE_ARGUMENT == 90

\* dis.hasconst, dis.hasname, dis.haslocal, dis.hasjrel
hasconst == {opcode.LOAD_CONST}

hasname == {opcode.STORE_NAME, opcode.LOAD_NAME, opcode.LOAD_GLOBAL}

haslocal == {opcode.LOAD_FAST, opcode.STORE_FAST}

hasjrel ==
    {opcode.FOR_ITER, opcode.JUMP_FORWARD, opcode.SETUP_LOOP,
     opcode.SETUP_EXCEPT, opcode.SETUP_FINALLY}

\* byte_name[7:] for the names that start with BINARY_ and have no handler
BinarySuffix ==
    [BINARY_MATRIX_MULTIPLY |-> "MATRIX_MULTIPLY", BINARY_POWER |-> "POWER",
     BINARY_MULTIPLY |-> "MULTIPLY", BINARY_MODULO |-> "MODULO",
     BINARY_ADD |-> "ADD", BINARY_SUBTRACT |-> "SUBTRACT",
     BINARY_SUBSCR |-> "SUBSCR", BINARY_FLOOR_DIVIDE |-> "FLOOR_DIVIDE",
     BINARY_TRUE_DIVIDE |-> "TRUE_DIVIDE", BINARY_LSHIFT |-> "LSHIFT",
     BINARY_RSHIFT |-> "RSHIFT", BINARY_AND |-> "AND", BINARY_XOR |-> "XOR",
     BINARY_OR |-> "OR"]

\* byte_name[6:] for the names that start with UNARY_
UnarySuffix ==
    [UNARY_POSITIVE |-> "POSITIVE", UNARY_NEGATIVE |-> "NEGATIVE",
     UNARY_NOT |-> "NOT", UNARY_INVERT |-> "INVERT"]

(***************************************************************************)
(* Code units.  A code object is the value CodeV(family, n, d); Code gives *)
(* its co_code (bytes), co_consts, co_names, co_varnames and co_argcount.  *)
(***************************************************************************)
\* a program text of one instruction without operand, and of one with one
I0(name) == <<<<name, 0>>>>

I1(name, arg) == <<<<name, arg>>>>

RECURSIVE Assemble(_)
\* the bytes of a program text: the opcode of each instruction, followed,
\* from HAVE_ARGUMENT on, by its operand as 16 bits, low byte first
Assemble(text) ==
    IF text = <<>> THEN <<>>
    ELSE LET b == opcode[Head(text)[1]]
             arg == Head(text)[2]
         IN  (IF b >= HAVE_ARGUMENT THEN <<b, arg % 256, arg \div 256>>
              ELSE <<b>>) \o Assemble(Tail(text))

\* the legacy BINARY_<OP> instruction the family "legacy" applies, by index
LegacyNames ==
    <<"BINARY_POWER", "BINARY_MULTIPLY", "BINARY_FLOOR_DIVIDE",
      "BINARY_TRUE_DIVIDE", "BINARY_MODULO", "BINARY_ADD", "BINARY_SUBTRACT",
      "BINARY_LSHIFT", "BINARY_RSHIFT", "BINARY_AND", "BINARY_XOR",
      "BINARY_OR">>

CodeObj(text, consts, names, varnames, argcount) ==
    [co_code |-> Assemble(text), co_consts |-> consts, co_names |-> names,
     co_varnames |-> varnames, co_argcount |-> argcount]

\* def f(x, y): return x <op> y, compiled to the legacy BINARY_<OP> form
LegacyCode(n) ==
    CodeObj(I1("LOAD_FAST", 0) \o I1("LOAD_FAST", 1) \o I0(LegacyNames[n])
                \o I0("RETURN_VALUE"),
            <<NoneV>>, <<>>, <<"x", "y">>, 2)

\* def f(x, y): return x <op> y, compiled to BINARY_OP with operator index n
BinopCode(n) ==
    CodeObj(I1("LOAD_FAST", 0) \o I1("LOAD_FAST", 1) \o I1("BINARY_OP", n)
                \o I0("RETURN_VALUE"),
            <<NoneV>>, <<>>, <<"x", "y">>, 2)

\* range(n) as a constant tuple
RangeTuple(n) == TupleV([i \in 1..n |-> IntV(i - 1)])

\* acc = 0; <sentinel on the stack>; for i in (0..n-1): [if i == d: break];
\* acc = acc + i; return acc          (d < 0: the loop has no break)
LoopL(d) == IF d >= 0 THEN 35 ELSE 22

LoopP(d) == LoopL(d) + 13

LoopE(d) == LoopP(d) + 1

LoopCode(n, d) ==
    CodeObj(I1("LOAD_CONST", 0) \o I1("STORE_FAST", 0)
                \o I1("LOAD_CONST", 0)
                \o I1("SETUP_LOOP", LoopE(d) - 12)
                \o I1("LOAD_CONST", 1) \o I0("GET_ITER")
                \o I1("FOR_ITER", LoopP(d) - 19)
                \o I1("STORE_FAST", 1)
                \o (IF d >= 0
                    THEN I1("LOAD_FAST", 1) \o I1("LOAD_CONST", 2)
                            \o I1("COMPARE_OP", 2)
                            \o I1("POP_JUMP_IF_FALSE", LoopL(d))
                            \o I0("BREAK_LOOP")
                    ELSE <<>>)
                \o I1("LOAD_FAST", 0) \o I1("LOAD_FAST", 1)
                \o I0("BINARY_ADD") \o I1("STORE_FAST", 0)
                \o I1("JUMP_ABSOLUTE", 16)
                \o I0("POP_BLOCK")
                \o I1("LOAD_FAST", 0) \o I0("RETURN_VALUE"),
            <<IntV(0), RangeTuple(n), IntV(d)>>, <<>>, <<"acc", "i">>, 0)

\* try: <guarded> finally: fin = 5; then return 9.  The guarded region
\* completes normally (n = 0), returns (n = 1) or faults (n = 2).
FinallyGuardLen(n) == IF n = 2 THEN 8 ELSE 4

FinallyH(n) == 3 + FinallyGuardLen(n) + 4

FinallyCode(n) ==
    CodeObj(I1("SETUP_FINALLY", FinallyH(n) - 3)
                \o (CASE n = 0 -> I1("LOAD_CONST", 1) \o I0("POP_TOP")
                      [] n = 1 -> I1("LOAD_CONST", 1) \o I0("RETURN_VALUE")
                      [] OTHER -> I1("LOAD_CONST", 1) \o I1("LOAD_CONST", 2)
                                    \o I0("BINARY_FLOOR_DIVIDE")
                                    \o I0("POP_TOP"))
                \o I0("POP_BLOCK") \o I1("LOAD_CONST", 0)
                \o I1("LOAD_CONST", 3) \o I1("STORE_FAST", 0)
                \o I0("END_FINALLY")
                \o I1("LOAD_CONST", 4) \o I0("RETURN_VALUE"),
            <<NoneV, IntV(1), IntV(0), IntV(5), IntV(9)>>, <<>>, <<"fin">>, 0)

\* try: 1 // 0  except: return 42;  return None
ExceptH == 3 + 3 + 3 + 1 + 1 + 1 + 3

ExceptCode ==
    CodeObj(I1("SETUP_EXCEPT", ExceptH - 3)
                \o I1("LOAD_CONST", 1) \o I1("LOAD_CONST", 2)
                \o I0("BINARY_FLOOR_DIVIDE") \o I0("POP_TOP")
                \o I0("POP_BLOCK") \o I1("JUMP_FORWARD", 7)
                \o I0("POP_TOP") \o I0("POP_TOP") \o I0("POP_TOP")
                \o I1("LOAD_CONST", 3) \o I0("RETURN_VALUE")
                \o I1("LOAD_CONST", 0) \o I0("RETURN_VALUE"),
            <<NoneV, IntV(1), IntV(0), IntV(42)>>, <<>>, <<>>, 0)

\* def pair(a, b): return a // b
PairCode ==
    CodeObj(I1("LOAD_FAST", 0) \o I1("LOAD_FAST", 1)
                \o I0("BINARY_FLOOR_DIVIDE") \o I0("RETURN_VALUE"),
            <<NoneV>>, <<>>, <<"a", "b">>, 2)

\* k copies of the one-instruction text s
Repeat(s, k) == [i \in 1..k |-> s[1]]

\* the n positional arguments a call program passes: the locals x, y, x, ...
PushArgs(n) == [i \in 1..n |-> <<"LOAD_FAST", (i - 1) % 2>>]

\* def main(x, y): return pair(<n arguments>) + 1, pair made with d defaults
CallPairAt(n, d) == 3 * d + 9 + 3 * n

CallPairCode(n, d) ==
    CodeObj(Repeat(I1("LOAD_CONST", 1), d)
                \o I1("LOAD_CONST", 2) \o I1("LOAD_CONST", 3)
                \o I1("MAKE_FUNCTION", d)
                \o PushArgs(n)
                \o I1("CALL_FUNCTION", n)
                \o I1("LOAD_CONST", 1) \o I0("BINARY_ADD")
                \o I0("RETURN_VALUE"),
            <<NoneV, IntV(1), CodeV("pair", 0, 0), StrV("pair")>>, <<>>,
            <<"x", "y">>, 2)

\* def f(x, y): return callee(x, y) + 1, the call inside a loop block when
\* wrap = 1
WrapCallAt(wrap) == IF wrap = 1 THEN 18 ELSE 15

WrapCallCode(callee, name, wrap) ==
    CodeObj((IF wrap = 1 THEN I1("SETUP_LOOP", 19) ELSE <<>>)
                \o I1("LOAD_CONST", 2) \o I1("LOAD_CONST", 3)
                \o I1("MAKE_FUNCTION", 0)
                \o I1("LOAD_FAST", 0) \o I1("LOAD_FAST", 1)
                \o I1("CALL_FUNCTION", 2)
                \o (IF wrap = 1 THEN I0("POP_BLOCK") ELSE <<>>)
                \o I1("LOAD_CONST", 1) \o I0("BINARY_ADD")
                \o I0("RETURN_VALUE"),
            <<NoneV, IntV(1), callee, StrV(name)>>, <<>>, <<"x", "y">>, 2)

\* a break outside any loop, a jump to itself, a stream without a return
BreakoutCode == CodeObj(I0("BREAK_LOOP"), <<NoneV>>, <<>>, <<>>, 0)

SpinCode == CodeObj(I1("JUMP_ABSOLUTE", 0), <<NoneV>>, <<>>, <<>>, 0)

RunoffCode == CodeObj(I1("LOAD_CONST", 1), <<NoneV, IntV(1)>>, <<>>, <<>>, 0)

\* the names a LOAD_FAST program may read: the argument x, the global g,
\* the builtin abs, the key __builtins__, and z, bound nowhere
FastNames == <<"x", "g", "abs", "__builtins__", "z">>

\* def f(x): return <name n of FastNames>, the name read with LOAD_FAST
FastCode(n) ==
    CodeObj(I1("LOAD_FAST", n) \o I0("RETURN_VALUE"),
            <<NoneV>>, <<>>, FastNames, 1)

\* instructions without a byte_ method: six the VM ignores, then four it
\* runs as operators by their name
OddText ==
    <<<<"NOP", 0>>, <<"INPLACE_ADD", 0>>, <<"POP_EXCEPT", 0>>,
      <<"CONTINUE_LOOP", 0>>, <<"RAISE_VARARGS", 1>>, <<"SETUP_EXCEPT", 3>>,
      <<"UNARY_NEGATIVE", 0>>, <<"UNARY_NOT", 0>>,
      <<"BINARY_MATRIX_MULTIPLY", 0>>, <<"BINARY_SUBTRACT", 0>>>>

\* the offset of the probed instruction of an odd program
OddAt == 3 + 3

\* push 5, push 3, instruction n of OddText, return the top of the stack
OddCode(n) ==
    CodeObj(I1("LOAD_CONST", 1) \o I1("LOAD_CONST", 2) \o <<OddText[n]>>
                \o I0("RETURN_VALUE"),
            <<NoneV, IntV(5), IntV(3)>>, <<>>, <<>>, 0)

\* the offset of the instruction a short program cuts off
ShortAt == 3

\* push 5, then a LOAD_CONST whose operand is cut short by the end of the
\* stream: n of its two operand bytes are there (the byte is POP_TOP's)
ShortCode(n) ==
    [CodeObj(I1("LOAD_CONST", 1), <<NoneV, IntV(5)>>, <<>>, <<>>, 0)
        EXCEPT !.co_code = @ \o <<opcode.LOAD_CONST>>
                             \o (IF n = 1 THEN <<opcode.POP_TOP>> ELSE <<>>)]

\* LOAD_CONST with an index beyond co_consts, then RETURN_VALUE
BadConstCode ==
    CodeObj(I1("LOAD_CONST", 9) \o I0("RETURN_VALUE"),
            <<NoneV, IntV(5)>>, <<>>, <<>>, 0)

\* def f(it): for v in it: pass; return None
ForeverCode ==
    CodeObj(I1("SETUP_LOOP", 12) \o I1("LOAD_FAST", 0) \o I0("GET_ITER")
                \o I1("FOR_ITER", 4) \o I0("POP_TOP")
                \o I1("JUMP_ABSOLUTE", 7) \o I0("POP_BLOCK")
                \o I1("LOAD_CONST", 0) \o I0("RETURN_VALUE"),
            <<NoneV>>, <<>>, <<"it">>, 1)

\* the code unit of a code object
Code(cv) ==
    CASE cv.c = "legacy" -> LegacyCode(cv.n)
      [] cv.c = "binop" -> BinopCode(cv.n)
      [] cv.c = "loop" -> LoopCode(cv.n, cv.d)
      [] cv.c = "finally" -> FinallyCode(cv.n)
      [] cv.c = "except" -> ExceptCode
      [] cv.c = "pair" -> PairCode
      [] cv.c = "callpair" -> CallPairCode(cv.n, cv.d)
      [] cv.c = "mid" -> WrapCallCode(CodeV("pair", 0, 0), "pair", cv.n)
      [] cv.c = "callmid" ->
            WrapCallCode(CodeV("mid", cv.n, 0), "mid", cv.d)
      [] cv.c = "breakout" -> BreakoutCode
      [] cv.c = "spin" -> SpinCode
      [] cv.c = "fast" -> FastCode(cv.n)
      [] cv.c = "odd" -> OddCode(cv.n)
      [] cv.c = "short" -> ShortCode(cv.n)
      [] cv.c = "badconst" -> BadConstCode
      [] cv.c = "forever" -> ForeverCode
      [] OTHER -> RunoffCode

(***************************************************************************)
(* Scopes.  A scope is a mapping from keys (host values: the name as a     *)
(* string) to values.                                                      *)
(***************************************************************************)
EmptyMap == [k \in {} |-> NoneV]

BuiltinsModule == Val("module", 0, 1, "builtins", <<>>)

\* the __dict__ of the host's builtins module, as far as the model uses it
Builtins == (StrV("abs") :> BuiltinV("abs"))

\* the global_names a run is given (test.py passes globals())
Globals ==
    (StrV("__builtins__") :> BuiltinsModule) @@ (StrV("g") :> IntV(7))

\* an optional mapping argument: None, or a mapping
Nothing == [some |-> FALSE, map |-> EmptyMap]

Some(m) == [some |-> TRUE, map |-> m]

(***************************************************************************)
(* Frames and blocks.                                                      *)
(***************************************************************************)
\* Block(type, handler, stack_height); a handler of None is written -1
Block(type, handler, stack_height) ==
    [type |-> type, handler |-> handler, stack_height |-> stack_height]

\* Frame.__init__
Frame(code_obj, global_names, local_names) ==
    [code_obj |-> code_obj, global_names |-> global_names,
     local_names |-> local_names, stack |-> <<>>, block_stack |-> <<>>,
     last_instruction |-> 0]

\* VirtualMachine.make_frame: g and l are the optional global_names and
\* local_names, hasFrames says whether self.frames is non-empty and
\* curGlobals is self.frame.global_names
make_frame(code, callargs, g, l, hasFrames, curGlobals) ==
    LET fresh == (StrV("__builtins__") :> BuiltinsModule)
                    @@ (StrV("__name__") :> StrV("__main__"))
                    @@ (StrV("__doc__") :> NoneV)
                    @@ (StrV("__package__") :> NoneV)
        gl == CASE ~g.some /\ ~l.some ->
                    IF hasFrames THEN <<curGlobals, EmptyMap>>
                    ELSE <<fresh, fresh>>
                [] g.some /\ ~l.some -> <<g.map, EmptyMap>>
                [] l.some /\ ~g.some -> <<l.map, l.map>>
                [] OTHER -> <<g.map, l.map>>
        global_names == gl[1]
        loc == gl[2]
        withBuiltins ==
            IF StrV("__builtins__") \in DOMAIN loc THEN loc
            ELSE IF StrV("__builtins__") \in DOMAIN global_names
            THEN (StrV("__builtins__") :> global_names[StrV("__builtins__")])
                    @@ loc
            ELSE (StrV("__builtins__") :> BuiltinsModule) @@ loc
    IN  Frame(code, global_names, callargs @@ withBuiltins)

\* the outcome of a handler: the frame after it, the signal it returns
\* ("None" for none), the exception type it raised ("None" for none) and
\* the VM's return_value after it
H(f, why, exc, rv) == [f |-> f, why |-> why, exc |-> exc, rv |-> rv]

Last(s) == s[Len(s)]

Front(s) == SubSeq(s, 1, Len(s) - 1)

\* VirtualMachine.push
push(f, v) == [f EXCEPT !.stack = Append(@, v)]

\* VirtualMachine.popn: the last n items (fewer when the stack is shorter:
\* a slice never fails) and the stack without them
popn(st, n) ==
    IF n # 0
    THEN LET k == IF n > Len(st) THEN Len(st) ELSE n
         IN  [ret |-> SubSeq(st, Len(st) - k + 1, Len(st)),
              rest |-> SubSeq(st, 1, Len(st) - k)]
    ELSE [ret |-> <<>>, rest |-> st]

\* VirtualMachine.jump
jump(f, target) == [f EXCEPT !.last_instruction = target]

\* VirtualMachine.push_block
push_block(f, b_type, handler) ==
    [f EXCEPT !.block_stack = Append(@, Block(b_type, handler, Len(f.stack)))]

\* VirtualMachine.pop_block
pop_block(f) == [f EXCEPT !.block_stack = Front(@)]

(***************************************************************************)
(* The decoder.                                                            *)
(***************************************************************************)
\* VirtualMachine.parse_byte_and_args: the frame with its pointer advanced,
\* the opcode name and the argument list (empty, or one resolved operand);
\* co is f.code_obj's code unit
parse_at(f, co) ==
    LET opoffset == f.last_instruction
    IN  IF opoffset >= Len(co.co_code)
        THEN [f |-> f, byte_name |-> "RETURN_VALUE", argument |-> <<>>]
        ELSE
        LET byteCode == co.co_code[opoffset + 1]
            li == opoffset + 1
            byte_name == opname[byteCode]
        IN  IF byteCode >= HAVE_ARGUMENT
            THEN IF li + 1 >= Len(co.co_code)
                 THEN [f |-> jump(f, li), byte_name |-> byte_name,
                       argument |-> <<IntV(0)>>]
                 ELSE
                 LET arg_val == co.co_code[li + 1] + co.co_code[li + 2] * 256
                     li2 == li + 2
                     arg ==
                        CASE byteCode \in hasconst ->
                                IF arg_val < Len(co.co_consts)
                                THEN co.co_consts[arg_val + 1] ELSE NoneV
                          [] byteCode \in hasname ->
                                IF arg_val < Len(co.co_names)
                                THEN StrV(co.co_names[arg_val + 1])
                                ELSE IntV(arg_val)
                          [] byteCode \in haslocal ->
                                IF arg_val < Len(co.co_varnames)
                                THEN StrV(co.co_varnames[arg_val + 1])
                                ELSE IntV(arg_val)
                          [] byteCode \in hasjrel -> IntV(li2 + arg_val)
                          [] OTHER -> IntV(arg_val)
                 IN  [f |-> jump(f, li2), byte_name |-> byte_name,
                      argument |-> <<arg>>]
            ELSE [f |-> jump(f, li), byte_name |-> byte_name,
                  argument |-> <<>>]

parse_byte_and_args(f) ==
    With(Code(f.code_obj), LAMBDA co : parse_at(f, co))

(***************************************************************************)
(* The instruction handlers.  Each takes the current frame (and what else  *)
(* it reads) and yields an outcome H(frame, signal, exception, rv); a      *)
(* handler that raises keeps the stack effects it had before the raise.    *)
(***************************************************************************)
Done(f, rv) == H(f, "None", "None", rv)

Fault(f, e, rv) == H(f, "None", e, rv)

SetStack(f, st) == [f EXCEPT !.stack = st]

\* VirtualMachine.binaryOperator: x, y = popn(2); push(OP(x, y))
binaryOperator(f, op, rv) ==
    LET p == popn(f.stack, 2)
        f1 == SetStack(f, p.rest)
    IN  IF Len(p.ret) # 2 THEN Fault(f1, "ValueError", rv)
        ELSE IF op \notin BINARY_OPERATORS THEN Fault(f1, "KeyError", rv)
        ELSE LET r == HostBinary(op, p.ret[1], p.ret[2])
             IN  IF r.exc # "None" THEN Fault(f1, r.exc, rv)
                 ELSE Done(push(f1, r.v), rv)

\* VirtualMachine.unaryOperator
unaryOperator(f, op, rv) ==
    IF Len(f.stack) = 0 THEN Fault(f, "IndexError", rv)
    ELSE LET x == Last(f.stack)
             f1 == SetStack(f, Front(f.stack))
         IN  CASE op = "NOT" -> Done(push(f1, BoolV(~Truthy(x))), rv)
               [] op = "POSITIVE" ->
                    IF IsInt(x) THEN Done(push(f1, IntV(x.n)), rv)
                    ELSE IF x.t = "float" THEN Done(push(f1, x), rv)
                    ELSE Fault(f1, "TypeError", rv)
               [] op = "NEGATIVE" ->
                    IF IsInt(x) THEN Done(push(f1, IntV(-x.n)), rv)
                    ELSE IF x.t = "float"
                    THEN Done(push(f1, FloatV(-x.n, x.d)), rv)
                    ELSE Fault(f1, "TypeError", rv)
               [] op = "INVERT" ->
                    IF IsInt(x) THEN Done(push(f1, IntV(-x.n - 1)), rv)
                    ELSE Fault(f1, "TypeError", rv)
               [] OTHER -> Fault(f1, "VirtualMachineError", rv)

\* VirtualMachine.byte_COMPARE_OP
byte_COMPARE_OP(f, opnum, rv) ==
    LET p == popn(f.stack, 2)
        f1 == SetStack(f, p.rest)
    IN  IF Len(p.ret) # 2 THEN Fault(f1, "ValueError", rv)
        ELSE LET r == HostCompare(opnum.n, p.ret[1], p.ret[2])
             IN  IF r.exc # "None" THEN Fault(f1, r.exc, rv)
                 ELSE Done(push(f1, r.v), rv)

\* VirtualMachine.byte_LOAD_CONST
byte_LOAD_CONST(f, const, rv) == Done(push(f, const), rv)

\* VirtualMachine.byte_POP_TOP
byte_POP_TOP(f, rv) ==
    IF Len(f.stack) = 0 THEN Fault(f, "IndexError", rv)
    ELSE Done(SetStack(f, Front(f.stack)), rv)

\* VirtualMachine.byte_LOAD_NAME
byte_LOAD_NAME(f, name, rv) ==
    IF name \in DOMAIN f.local_names
    THEN Done(push(f, f.local_names[name]), rv)
    ELSE IF name \in DOMAIN f.global_names
    THEN Done(push(f, f.global_names[name]), rv)
    ELSE IF name \in DOMAIN Builtins THEN Done(push(f, Builtins[name]), rv)
    ELSE Fault(f, "NameError", rv)

\* VirtualMachine.byte_STORE_NAME and byte_STORE_FAST
byte_STORE_FAST(f, name, rv) ==
    IF Len(f.stack) = 0 THEN Fault(f, "IndexError", rv)
    ELSE Done([f EXCEPT !.stack = Front(@),
                        !.local_names = (name :> Last(f.stack)) @@ @], rv)

\* VirtualMachine.byte_LOAD_FAST
byte_LOAD_FAST(f, name, rv) ==
    IF name \in DOMAIN f.local_names
    THEN Done(push(f, f.local_names[name]), rv)
    ELSE Fault(f, "UnboundLocalError", rv)

\* VirtualMachine.byte_LOAD_GLOBAL
byte_LOAD_GLOBAL(f, name, rv) ==
    IF name \in DOMAIN f.global_names
    THEN Done(push(f, f.global_names[name]), rv)
    ELSE IF name \in DOMAIN Builtins THEN Done(push(f, Builtins[name]), rv)
    ELSE Fault(f, "NameError", rv)

\* VirtualMachine.byte_BUILD_LIST
byte_BUILD_LIST(f, count, rv) ==
    LET p == popn(f.stack, count.n)
    IN  Done(push(SetStack(f, p.rest), ListV(p.ret)), rv)

\* VirtualMachine.byte_JUMP_FORWARD and byte_JUMP_ABSOLUTE
byte_JUMP(f, target, rv) == Done(jump(f, target.n), rv)

\* VirtualMachine.byte_POP_JUMP_IF_TRUE (sense TRUE) / _IF_FALSE (FALSE)
byte_POP_JUMP_IF(f, sense, target, rv) ==
    IF Len(f.stack) = 0 THEN Fault(f, "IndexError", rv)
    ELSE LET f1 == SetStack(f, Front(f.stack))
         IN  IF Truthy(Last(f.stack)) = sense
             THEN Done(jump(f1, target.n), rv)
             ELSE Done(f1, rv)

\* byte_SETUP_LOOP that pushes its block as an exception guard
byte_SETUP_LOOP_guard(f, dest, rv) ==
    Done(push_block(f, "setup-except", dest.n), rv)

\* VirtualMachine.byte_SETUP_LOOP
byte_SETUP_LOOP(f, dest, rv) == Done(push_block(f, "loop", dest.n), rv)

\* VirtualMachine.byte_GET_ITER: iter() of a tuple, a list or an iterator
byte_GET_ITER(f, rv) ==
    IF Len(f.stack) = 0 THEN Fault(f, "IndexError", rv)
    ELSE LET x == Last(f.stack)
             f1 == SetStack(f, Front(f.stack))
         IN  IF x.t \in {"tuple", "list"} THEN Done(push(f1, IterV(x.s)), rv)
             ELSE IF x.t = "iterator" THEN Done(push(f1, x), rv)
             ELSE Fault(f1, "TypeError", rv)

\* VirtualMachine.byte_FOR_ITER
byte_FOR_ITER(f, target, rv) ==
    IF Len(f.stack) = 0 THEN Fault(f, "IndexError", rv)
    ELSE LET iterobj == Last(f.stack)
         IN  IF iterobj.t # "iterator" THEN Fault(f, "TypeError", rv)
             ELSE IF iterobj.c = "cycle" /\ Len(iterobj.s) > 0
             THEN Done(push(SetStack(f, Append(Front(f.stack),
                                               CycleV(Append(Tail(iterobj.s),
                                                             Head(iterobj.s))))),
                            Head(iterobj.s)), rv)
             ELSE IF Len(iterobj.s) > 0
             THEN Done(push(SetStack(f, Append(Front(f.stack),
                                               IterV(Tail(iterobj.s)))),
                            Head(iterobj.s)), rv)
             ELSE Done(jump(SetStack(f, Front(f.stack)), target.n), rv)

\* VirtualMachine.byte_BREAK_LOOP
byte_BREAK_LOOP(f, rv) == H(f, "break", "None", rv)

\* VirtualMachine.byte_POP_BLOCK
byte_POP_BLOCK(f, rv) ==
    IF Len(f.block_stack) = 0 THEN Fault(f, "IndexError", rv)
    ELSE Done(pop_block(f), rv)

\* a Function object: its code, and its func_defaults
FnV(code, defaults) == Val("function", code.n, code.d, code.c, defaults)

FnCode(fn) == CodeV(fn.c, fn.n, fn.d)

\* VirtualMachine.byte_MAKE_FUNCTION with Function.__init__
byte_MAKE_FUNCTION(f, argc, rv) ==
    IF Len(f.stack) = 0 THEN Fault(f, "IndexError", rv)
    ELSE IF Len(f.stack) = 1
    THEN Fault(SetStack(f, <<>>), "IndexError", rv)
    ELSE LET st == f.stack
             code == st[Len(st) - 1]
             p == popn(SubSeq(st, 1, Len(st) - 2), argc.n)
             f1 == SetStack(f, p.rest)
         IN  IF code.t # "code" THEN Fault(f1, "AttributeError", rv)
             ELSE Done(push(f1, FnV(code, p.ret)), rv)

\* VirtualMachine.byte_RETURN_VALUE
byte_RETURN_VALUE(f, rv) ==
    IF Len(f.stack) = 0 THEN H(f, "return", "None", NoneV)
    ELSE H(SetStack(f, Front(f.stack)), "return", "None", Last(f.stack))

\* VirtualMachine.byte_COPY: push(stack[-arg])
byte_COPY(f, arg, rv) ==
    LET i == IF arg.n = 0 THEN 1 ELSE Len(f.stack) - arg.n + 1
    IN  IF i < 1 \/ i > Len(f.stack) THEN Fault(f, "IndexError", rv)
        ELSE Done(push(f, f.stack[i]), rv)

\* VirtualMachine.byte_SWAP
byte_SWAP(f, arg, rv) ==
    IF arg.n # 2 THEN Done(f, rv)
    ELSE IF Len(f.stack) < 2 THEN Fault(f, "IndexError", rv)
    ELSE LET n == Len(f.stack)
         IN  Done(SetStack(f, SubSeq(f.stack, 1, n - 2)
                                \o <<f.stack[n], f.stack[n - 1]>>), rv)

\* VirtualMachine.byte_LOAD_FAST_LOAD_FAST
byte_LOAD_FAST_LOAD_FAST(f, rv) ==
    LET vn == Code(f.code_obj).co_varnames
    IN  IF Len(vn) < 2 THEN Fault(f, "IndexError", rv)
        ELSE IF StrV(vn[1]) \notin DOMAIN f.local_names
                \/ StrV(vn[2]) \notin DOMAIN f.local_names
        THEN Fault(f, "KeyError", rv)
        ELSE Done(push(push(f, f.local_names[StrV(vn[1])]),
                       f.local_names[StrV(vn[2])]), rv)

\* VirtualMachine.byte_BINARY_OP: y, x = popn(2); push(OP(x, y))
byte_BINARY_OP(f, arg, rv) ==
    IF Len(f.stack) < 2 THEN Fault(f, "VirtualMachineError", rv)
    ELSE IF arg.n \in 0..12
    THEN LET p == popn(f.stack, 2)
             y == p.ret[1]
             x == p.ret[2]
             f1 == SetStack(f, p.rest)
             r == HostBinary(BINARY_OPS[arg.n + 1], x, y)
         IN  IF r.exc # "None" THEN Fault(f1, r.exc, rv)
             ELSE Done(push(f1, r.v), rv)
    ELSE Fault(f, "VirtualMachineError", rv)

(***************************************************************************)
(* Calls.                                                                  *)
(***************************************************************************)
\* a binding that never refuses: a parameter without an argument is None,
\* an argument without a parameter is dropped
bind_args_lenient(co, fn, posargs) ==
    [exc |-> "None",
     callargs |->
        [k \in {StrV(co.co_varnames[i]) : i \in 1..co.co_argcount} |->
            LET i == CHOOSE j \in 1..co.co_argcount :
                        StrV(co.co_varnames[j]) = k
            IN  IF i <= Len(posargs) THEN posargs[i] ELSE NoneV]]

\* inspect.getcallargs for positional arguments: the parameter names bound
\* to the arguments and the defaults, or TypeError; co is the function's
\* code unit
bind_args(co, fn, posargs) ==
    LET argc == co.co_argcount
        ndef == Len(fn.s)
        keys == {StrV(co.co_varnames[i]) : i \in 1..argc}
        ix(k) == CHOOSE i \in 1..argc : StrV(co.co_varnames[i]) = k
    IN  IF Len(posargs) > argc \/ Len(posargs) < argc - ndef
        THEN [exc |-> "TypeError", callargs |-> EmptyMap]
        ELSE [exc |-> "None",
              callargs |->
                [k \in keys |->
                    IF ix(k) <= Len(posargs) THEN posargs[ix(k)]
                    ELSE fn.s[ix(k) - (argc - ndef)]]]

getcallargs(fn, posargs) ==
    With(Code(FnCode(fn)), LAMBDA co : bind_args(co, fn, posargs))

\* a call of a host builtin
HostCall(func, posargs) ==
    IF func.c = "abs" /\ Len(posargs) = 1 /\ IsInt(posargs[1])
    THEN Ok(IntV(Abs(posargs[1].n)))
    ELSE Raise("TypeError")

\* byte_CALL_FUNCTION / byte_CALL up to the call itself: posargs =
\* popn(lenPos); func = pop(); then func(*posargs) either enters
\* Function.__call__ with bound arguments (enter), or has an outcome here
call_site(f, lenPos) ==
    LET p == popn(f.stack, lenPos)
        none == [f |-> SetStack(f, p.rest), enter |-> FALSE, fn |-> NoneV,
                 callargs |-> EmptyMap, out |-> Raise("IndexError")]
    IN  IF Len(p.rest) = 0 THEN none
        ELSE
        LET func == Last(p.rest)
            f1 == SetStack(f, Front(p.rest))
            bound == getcallargs(func, p.ret)
        IN  CASE func.t = "function" /\ bound.exc = "None" ->
                    [none EXCEPT !.f = f1, !.enter = TRUE, !.fn = func,
                                 !.callargs = bound.callargs,
                                 !.out = Ok(NoneV)]
              [] func.t = "function" ->
                    [none EXCEPT !.f = f1, !.fn = func,
                                 !.out = Raise(bound.exc)]
              [] func.t = "builtin" ->
                    [none EXCEPT !.f = f1, !.fn = func,
                                 !.out = HostCall(func, p.ret)]
              [] OTHER ->
                    [none EXCEPT !.f = f1, !.fn = func,
                                 !.out = Raise("TypeError")]

\* lenKw, lenPos = divmod(arg, 256) of byte_CALL_FUNCTION; argc = arg of
\* byte_CALL
CallArgc(byte_name, arg) == IF byte_name = "CALL" THEN arg.n ELSE arg.n % 256

CallNames == {"CALL_FUNCTION", "CALL"}

\* byte_CALL_FUNCTION / byte_CALL when the call does not enter a frame
byte_CALL_here(f, byte_name, arg, rv) ==
    LET c == call_site(f, CallArgc(byte_name, arg))
    IN  IF c.out.exc # "None" THEN Fault(c.f, c.out.exc, rv)
        ELSE Done(push(c.f, c.out.v), rv)

(***************************************************************************)
(* Dispatch.                                                               *)
(***************************************************************************)
\* the byte_<NAME> methods, by the number of arguments each must be given
OneArgHandlers ==
    {"COMPARE_OP", "LOAD_CONST", "LOAD_NAME", "STORE_NAME", "LOAD_FAST",
     "STORE_FAST", "LOAD_GLOBAL", "BUILD_LIST", "JUMP_FORWARD",
     "JUMP_ABSOLUTE", "POP_JUMP_IF_TRUE", "POP_JUMP_IF_FALSE", "SETUP_LOOP",
     "FOR_ITER", "MAKE_FUNCTION", "CALL_FUNCTION", "CALL", "COPY", "SWAP",
     "BINARY_OP"}

NoArgHandlers ==
    {"POP_TOP", "GET_ITER", "BREAK_LOOP", "POP_BLOCK", "RETURN_VALUE"}

OptArgHandlers ==
    {"RESUME", "CACHE", "PRECALL", "BEFORE_ASYNC_WITH", "GET_AWAITABLE",
     "GET_AITER", "GET_ANEXT", "BEFORE_WITH"}

\* bytecode_fn(*argument) for a name that has a byte_<NAME> method
Handler(byte_name, argument, f, rv) ==
    IF (byte_name \in OneArgHandlers /\ Len(argument) # 1)
            \/ (byte_name \in NoArgHandlers /\ Len(argument) # 0)
    THEN Fault(f, "TypeError", rv)
    ELSE
    LET a == IF Len(argument) > 0 THEN argument[1] ELSE NoneV
    IN  CASE byte_name = "COMPARE_OP" -> byte_COMPARE_OP(f, a, rv)
          [] byte_name = "LOAD_CONST" -> byte_LOAD_CONST(f, a, rv)
          [] byte_name = "POP_TOP" -> byte_POP_TOP(f, rv)
          [] byte_name = "LOAD_NAME" -> byte_LOAD_NAME(f, a, rv)
          [] byte_name \in {"STORE_NAME", "STORE_FAST"} ->
                byte_STORE_FAST(f, a, rv)
          [] byte_name = "LOAD_FAST" -> byte_LOAD_FAST(f, a, rv)
          [] byte_name = "LOAD_GLOBAL" -> byte_LOAD_GLOBAL(f, a, rv)
          [] byte_name = "BUILD_LIST" -> byte_BUILD_LIST(f, a, rv)
          [] byte_name \in {"JUMP_FORWARD", "JUMP_ABSOLUTE"} ->
                byte_JUMP(f, a, rv)
          [] byte_name = "POP_JUMP_IF_TRUE" ->
                byte_POP_JUMP_IF(f, TRUE, a, rv)
          [] byte_name = "POP_JUMP_IF_FALSE" ->
                byte_POP_JUMP_IF(f, FALSE, a, rv)
          [] byte_name = "SETUP_LOOP" -> byte_SETUP_LOOP(f, a, rv)
          [] byte_name = "GET_ITER" -> byte_GET_ITER(f, rv)
          [] byte_name = "FOR_ITER" -> byte_FOR_ITER(f, a, rv)
          [] byte_name = "BREAK_LOOP" -> byte_BREAK_LOOP(f, rv)
          [] byte_name = "POP_BLOCK" -> byte_POP_BLOCK(f, rv)
          [] byte_name = "MAKE_FUNCTION" -> byte_MAKE_FUNCTION(f, a, rv)
          [] byte_name \in CallNames -> byte_CALL_here(f, byte_name, a, rv)
          [] byte_name = "RETURN_VALUE" -> byte_RETURN_VALUE(f, rv)
          [] byte_name = "COPY" -> byte_COPY(f, a, rv)
          [] byte_name = "SWAP" -> byte_SWAP(f, a, rv)
          [] byte_name = "BINARY_OP" -> byte_BINARY_OP(f, a, rv)
          [] OTHER -> Done(f, rv)

\* dispatch that refuses an opcode without a byte_ method
Execute_strict(byte_name, argument, f, rv) ==
    IF byte_name = "BEFORE_ASYNC_WITH" /\ Len(argument) = 0
    THEN byte_LOAD_FAST_LOAD_FAST(f, rv)
    ELSE IF byte_name \in OneArgHandlers \cup NoArgHandlers
                            \cup OptArgHandlers
    THEN Handler(byte_name, argument, f, rv)
    ELSE Fault(f, "VirtualMachineError", rv)

\* the body of dispatch's try: the special case of opcode BEFORE_ASYNC_WITH,
\* the byte_<NAME> method when there is one, else the UNARY_ / BINARY_
\* operators by name, else the opcode is ignored
Execute(byte_name, argument, f, rv) ==
    IF byte_name = "BEFORE_ASYNC_WITH" /\ Len(argument) = 0
    THEN byte_LOAD_FAST_LOAD_FAST(f, rv)
    ELSE IF byte_name \in OneArgHandlers \cup NoArgHandlers
                            \cup OptArgHandlers
    THEN Handler(byte_name, argument, f, rv)
    ELSE IF byte_name \in DOMAIN UnarySuffix
    THEN unaryOperator(f, UnarySuffix[byte_name], rv)
    ELSE IF byte_name \in DOMAIN BinarySuffix
    THEN binaryOperator(f, BinarySuffix[byte_name], rv)
    ELSE Done(f, rv)

\* VirtualMachine.dispatch: a raised exception becomes the VM's
\* last_exception and the signal 'exception'
dispatch(byte_name, argument, f, rv, le) ==
    With(Execute(byte_name, argument, f, rv),
         LAMBDA h :
            [f |-> h.f,
             why |-> IF h.exc # "None" THEN "exception" ELSE h.why,
             return_value |-> h.rv,
             last_exception |-> IF h.exc # "None" THEN h.exc ELSE le])

(***************************************************************************)
(* The block-stack unwinder.                                               *)
(***************************************************************************)
ExcValue(e) == Val("exception", 0, 1, e, <<>>)

ExcType(e) == Val("type", 0, 1, e, <<>>)

\* unwind_block without its while loop: nothing is popped
unwind_block_keep(f, block, le) == [f |-> f, last_exception |-> le]

\* VirtualMachine.unwind_block: the frame and the VM's last_exception after
unwind_block(f, block, le) ==
    LET offset == IF block.type = "except-handler" THEN 3 ELSE 0
        keep == block.stack_height + offset
        st == IF Len(f.stack) > keep THEN SubSeq(f.stack, 1, keep)
              ELSE f.stack
    IN  IF block.type = "except-handler"
        THEN LET p == popn(st, 3)
             IN  [f |-> SetStack(f, p.rest),
                  last_exception |->
                    IF Len(p.ret) = 3 THEN p.ret[3].c ELSE le]
        ELSE [f |-> SetStack(f, st), last_exception |-> le]

\* manage_block_stack after pop_block, with a finally block that
\* intercepts 'return' and 'continue' only: a break passes it
after_pop_block_listed(f, block, why, rv, le) ==
    LET u == unwind_block(pop_block(f), block, le)
    IN  CASE block.type = "loop" /\ why = "break" ->
                [f |-> jump(u.f, block.handler), why |-> "None",
                 last_exception |-> u.last_exception]
          [] block.type \in {"setup-except", "finally"}
                /\ why = "exception" ->
                LET e == u.last_exception
                    trip == <<NoneV, ExcValue(e), ExcType(e)>>
                    f1 == push_block(u.f, "except-handler", -1)
                IN  [f |-> jump(SetStack(f1, f1.stack \o trip \o trip),
                                block.handler),
                     why |-> "None", last_exception |-> e]
          [] block.type = "finally" /\ why \in {"return", "continue"} ->
                [f |-> jump(push(push(u.f, rv), StrV(why)), block.handler),
                 why |-> "None", last_exception |-> u.last_exception]
          [] OTHER ->
                [f |-> u.f, why |-> why,
                 last_exception |-> u.last_exception]

\* manage_block_stack after pop_block: unwind_block, then the signal's case
after_pop_block(f, block, why, rv, le) ==
    LET u == unwind_block(pop_block(f), block, le)
    IN  CASE block.type = "loop" /\ why = "break" ->
                [f |-> jump(u.f, block.handler), why |-> "None",
                 last_exception |-> u.last_exception]
          [] block.type \in {"setup-except", "finally"}
                /\ why = "exception" ->
                LET e == u.last_exception
                    trip == <<NoneV, ExcValue(e), ExcType(e)>>
                    f1 == push_block(u.f, "except-handler", -1)
                IN  [f |-> jump(SetStack(f1, f1.stack \o trip \o trip),
                                block.handler),
                     why |-> "None", last_exception |-> e]
          [] block.type = "finally" ->
                LET f1 == IF why \in {"return", "continue"}
                          THEN push(u.f, rv) ELSE u.f
                IN  [f |-> jump(push(f1, StrV(why)), block.handler),
                     why |-> "None",
                     last_exception |-> u.last_exception]
          [] OTHER ->
                [f |-> u.f, why |-> why,
                 last_exception |-> u.last_exception]

\* manage_block_stack that treats 'continue' on a loop block like 'break':
\* the block is popped and unwound before the jump to the pending target
manage_block_stack_pop(f, why, rv, le) ==
    LET block == Last(f.block_stack)
    IN  IF block.type = "loop" /\ why = "continue"
        THEN [f |-> jump(unwind_block(pop_block(f), block, le).f, rv.n),
              why |-> "None", last_exception |-> le]
        ELSE after_pop_block(f, block, why, rv, le)

\* manage_block_stack with 'break' handled like 'continue': the jump is
\* made before pop_block, and the loop block stays
manage_block_stack_early(f, why, rv, le) ==
    LET block == Last(f.block_stack)
    IN  IF block.type = "loop" /\ why = "continue"
        THEN [f |-> jump(f, rv.n), why |-> "None", last_exception |-> le]
        ELSE IF block.type = "loop" /\ why = "break"
        THEN [f |-> jump(f, block.handler), why |-> "None",
              last_exception |-> le]
        ELSE after_pop_block(f, block, why, rv, le)

\* VirtualMachine.manage_block_stack: one pass over the top block; yields
\* the frame, the signal left ("None" when consumed) and last_exception
manage_block_stack(f, why, rv, le) ==
    LET block == Last(f.block_stack)
    IN  IF block.type = "loop" /\ why = "continue"
        THEN [f |-> jump(f, rv.n), why |-> "None", last_exception |-> le]
        ELSE after_pop_block(f, block, why, rv, le)

(***************************************************************************)
(* The state of one VirtualMachine and of the host's call stack.           *)
(***************************************************************************)
VARIABLES
    frames,          \* self.frames: the call stack of Frame records
    frame,           \* self.frame: index into frames of the current frame, 0 for None
    return_value,    \* self.return_value
    last_exception,  \* self.last_exception: the exception type, "None" for None
    calls,           \* the run_frame activations on the host stack, one per frame
    ret,             \* what a finished run_frame hands to the call that made it
    result,          \* what the last top-level run_code returned or raised
    runs,            \* number of top-level run_code calls made so far
    cur,             \* the input of the current / last top-level run_code
    hits,            \* history: bag of <<call depth, offset>> dispatched in this run
    marks,           \* history: the stack heights at each SETUP_LOOP of this run
    seen             \* history: <<input, outcome>> of finished runs, when tracked

vars ==
    <<frames, frame, return_value, last_exception, calls, ret, result, runs,
      cur, hits, marks, seen>>

\* the instruction ceiling of run_frame
InstructionLimit == 100

\* an outcome of run_frame / run_code: a returned value or a raised exception
NoOutcome == [kind |-> "none", v |-> NoneV, exc |-> "None"]

Returned(v) == [kind |-> "value", v |-> v, exc |-> "None"]

Raised(e) == [kind |-> "raise", v |-> NoneV, exc |-> e]

\* one activation of run_frame: its locals instruction_count and why, and
\* where it stands: "loop" at the top of the while loop, "unwind" in the
\* inner while loop, "called" inside dispatch waiting for a callee's
\* run_frame, "end" after the loop and before pop_frame
Act(count, why, at) == [instruction_count |-> count, why |-> why, at |-> at]

\* the operand pairs an arithmetic program is run on
OperandPairs == {<<10, 3>>, <<10, 2>>, <<2, 3>>, <<3, 0>>}

XY(a, b) == (StrV("x") :> IntV(a)) @@ (StrV("y") :> IntV(b))

Input(code, callargs) == [code |-> code, callargs |-> callargs]

NoInput == Input(NoneV, EmptyMap)

\* the break positions of the loop programs: none, or at item d (at item 8
\* the BREAK_LOOP is the 101st instruction of the run)
BreakAts == {-1, 1, 8}

\* the programs and arguments run_code is called with
ArithInputs ==
    {Input(CodeV("legacy", n, 0), XY(p[1], p[2])) :
        n \in 1..Len(LegacyNames), p \in OperandPairs}
    \cup {Input(CodeV("binop", n, 0), XY(p[1], p[2])) :
            n \in 0..13, p \in OperandPairs}

LoopInputs ==
    {Input(CodeV("loop", n, d), EmptyMap) : n \in 0..MaxItems, d \in BreakAts}

BlockInputs ==
    {Input(CodeV("finally", n, 0), EmptyMap) : n \in 0..2}
    \cup {Input(CodeV("except", 0, 0), EmptyMap)}

CallInputs ==
    {Input(CodeV("callpair", n, d), XY(p[1], p[2])) :
        n \in 0..3, d \in 0..2, p \in {<<10, 3>>, <<3, 0>>}}
    \cup {Input(CodeV("callmid", n, d), XY(p[1], p[2])) :
            n \in 0..1, d \in 0..1, p \in {<<10, 3>>, <<3, 0>>}}

EdgeInputs ==
    {Input(CodeV("breakout", 0, 0), EmptyMap),
     Input(CodeV("spin", 0, 0), EmptyMap),
     Input(CodeV("runoff", 0, 0), EmptyMap)}

\* the programs that probe one instruction each
ProbeInputs ==
    {Input(CodeV("fast", n, 0), StrV("x") :> IntV(10)) :
        n \in 0..(Len(FastNames) - 1)}
    \cup {Input(CodeV("odd", n, 0), EmptyMap) : n \in 1..Len(OddText)}
    \cup {Input(CodeV("short", n, 0), EmptyMap) : n \in 0..1}
    \cup {Input(CodeV("badconst", 0, 0), EmptyMap)}
    \cup {Input(CodeV("forever", 0, 0), StrV("it") :> CycleV(<<IntV(0), IntV(1)>>))}

Inputs ==
    ArithInputs \cup LoopInputs \cup BlockInputs \cup CallInputs
        \cup EdgeInputs \cup ProbeInputs

\* VirtualMachine.__init__
Init ==
    /\ frames = <<>>
    /\ frame = 0
    /\ return_value = NoneV
    /\ last_exception = "None"
    /\ calls = <<>>
    /\ ret = NoOutcome
    /\ result = NoOutcome
    /\ runs = 0
    /\ cur = NoInput
    /\ hits = EmptyBag
    /\ marks = {}
    /\ seen = {}

\* push_frame that makes the new frame current only when no frame is
\* current: a callee's instructions then run on the caller's frame
push_frame_stale(fs, f) ==
    [frames |-> Append(fs, f), frame |-> IF fs = <<>> THEN 1 ELSE Len(fs)]

\* VirtualMachine.push_frame: the frames and the current-frame pointer after
push_frame(fs, f) == [frames |-> Append(fs, f), frame |-> Len(fs) + 1]

\* pop_frame that leaves the frame where it is
pop_frame_keep(fs) == [frames |-> fs, frame |-> Len(fs)]

\* VirtualMachine.pop_frame
pop_frame(fs) ==
    [frames |-> Front(fs),
     frame |-> IF Len(Front(fs)) > 0 THEN Len(Front(fs)) ELSE 0]

\* run_frame that does not count: instruction_count stays as it is
after_dispatch_uncounted(a, why, f) ==
    IF why # "None" /\ Len(f.block_stack) > 0
    THEN Act(a.instruction_count, why, "unwind")
    ELSE IF why # "None" THEN Act(a.instruction_count, why, "end")
    ELSE Act(a.instruction_count, why, "loop")

\* run_frame from the inner while loop on: with a signal and a block left
\* the unwinder runs (again); with a signal and no block the loop is left;
\* without a signal the instruction is counted and the ceiling checked
after_dispatch(a, why, f) ==
    IF why # "None" /\ Len(f.block_stack) > 0
    THEN Act(a.instruction_count, why, "unwind")
    ELSE IF why # "None" THEN Act(a.instruction_count, why, "end")
    ELSE IF a.instruction_count + 1 > InstructionLimit
    THEN Act(a.instruction_count + 1, why, "end")
    ELSE Act(a.instruction_count + 1, why, "loop")

SetLast(s, x) == [s EXCEPT ![Len(s)] = x]

\* the instruction the current frame is about to decode
Next_parse == parse_byte_and_args(frames[frame])

\* the call a decoded call instruction p makes
SiteOf(p) == call_site(p.f, CallArgc(p.byte_name, p.argument[1]))

\* whether the decoded instruction p is a call that enters a Function's frame
EntersCall(p) ==
    /\ p.byte_name \in CallNames
    /\ Len(p.argument) = 1
    /\ SiteOf(p).enter

Hit == SetToBag({<<frame, frames[frame].last_instruction>>})

\* the history after one more dispatch; an entry is counted up to HitCap
HitCap == InstructionLimit + 2

hits_after ==
    IF CopiesIn(<<frame, frames[frame].last_instruction>>, hits) < HitCap
    THEN hits (+) Hit ELSE hits

\* run_code(code, callargs, global_names): make_frame, then run_frame up to
\* its loop (push_frame, instruction_count = 0); the host makes at most
\* `most` top-level calls
RunCode(in, most) ==
    /\ calls = <<>>
    /\ runs < most
    /\ \E pf \in {push_frame(frames,
                              make_frame(in.code, in.callargs, Some(Globals),
                                         Nothing, Len(frames) > 0,
                                         EmptyMap))} :
        /\ frames' = pf.frames
        /\ frame' = pf.frame
    /\ calls' = <<Act(0, "None", "loop")>>
    /\ runs' = runs + 1
    /\ cur' = in
    /\ result' = NoOutcome
    /\ hits' = EmptyBag
    /\ marks' = {}
    /\ UNCHANGED <<return_value, last_exception, ret, seen>>

\* the marks after the decoded instruction p ran on frame f0 with signal why
marks_after(p, why, f0) ==
    IF p.byte_name = "SETUP_LOOP" /\ why = "None"
    THEN {m \in marks : ~(m.depth = frame /\ m.target = p.argument[1].n)}
            \cup {[depth |-> frame, target |-> p.argument[1].n,
                   blocks |-> Len(f0.block_stack), height |-> Len(f0.stack)]}
    ELSE marks

\* one pass of run_frame's loop for an instruction that enters no frame:
\* parse_byte_and_args, dispatch, and the loop's tests
Dispatch ==
    /\ calls # <<>>
    /\ Last(calls).at = "loop"
    /\ \E p \in {Next_parse} :
        /\ ~EntersCall(p)
        /\ \E r \in {dispatch(p.byte_name, p.argument, p.f, return_value,
                              last_exception)} :
            /\ frames' = [frames EXCEPT ![frame] = r.f]
            /\ return_value' = r.return_value
            /\ last_exception' = r.last_exception
            /\ calls' = SetLast(calls,
                                after_dispatch(Last(calls), r.why, r.f))
            /\ marks' = marks_after(p, r.why, frames[frame])
    /\ hits' = hits_after
    /\ UNCHANGED <<frame, ret, result, runs, cur, seen>>

\* a call instruction whose callee is a Function with matching arity:
\* byte_CALL_FUNCTION pops the arguments and the function, Function.__call__
\* binds them and makes the frame, run_frame pushes it
Call ==
    /\ calls # <<>>
    /\ Last(calls).at = "loop"
    /\ \E p \in {Next_parse} :
        /\ EntersCall(p)
        /\ \E c \in {SiteOf(p)} :
            \E pf \in {push_frame([frames EXCEPT ![frame] = c.f],
                                  make_frame(FnCode(c.fn), c.callargs,
                                             Some(c.f.global_names),
                                             Some(EmptyMap), TRUE,
                                             c.f.global_names))} :
                /\ frames' = pf.frames
                /\ frame' = pf.frame
    /\ calls' = Append(SetLast(calls, [Last(calls) EXCEPT !.at = "called"]),
                       Act(0, "None", "loop"))
    /\ hits' = hits_after
    /\ UNCHANGED <<return_value, last_exception, ret, result, runs, cur,
                   marks, seen>>

\* one pass of run_frame's inner loop: manage_block_stack, then the tests
Unwind ==
    /\ calls # <<>>
    /\ Last(calls).at = "unwind"
    /\ \E r \in {manage_block_stack(frames[frame], Last(calls).why,
                                    return_value, last_exception)} :
        /\ frames' = [frames EXCEPT ![frame] = r.f]
        /\ last_exception' = r.last_exception
        /\ calls' = SetLast(calls, after_dispatch(Last(calls), r.why, r.f))
    /\ UNCHANGED <<frame, return_value, ret, result, runs, cur, hits, marks,
                   seen>>

\* run_frame without its `if why == 'exception'`: it always returns
outcome_swallow(why, rv, le) == [kind |-> "value", v |-> rv, exc |-> "None"]

\* what run_frame does after its loop: the exception it raises or the value
\* it returns
outcome(why, rv, le) == IF why = "exception" THEN Raised(le) ELSE Returned(rv)

\* the end of run_frame: pop_frame, then raise or return.  The outcome goes
\* to the call instruction that made the frame, or is run_code's outcome.
Exit(track) ==
    /\ calls # <<>>
    /\ Last(calls).at = "end"
    /\ \E pf \in {pop_frame(frames)} :
        /\ frames' = pf.frames
        /\ frame' = pf.frame
    /\ \E o \in {outcome(Last(calls).why, return_value, last_exception)} :
        IF Len(calls) = 1
        THEN /\ result' = o
             /\ ret' = ret
             /\ seen' = IF track THEN seen \cup {<<cur, o>>} ELSE seen
        ELSE /\ ret' = o
             /\ result' = result
             /\ seen' = seen
    /\ calls' = Front(calls)
    /\ marks' = {m \in marks : m.depth # frame}
    /\ UNCHANGED <<return_value, last_exception, runs, cur, hits>>

\* the rest of byte_CALL_FUNCTION in the caller once the callee's run_frame
\* has ended: push(retval), or the exception is caught by dispatch; then
\* the caller's loop tests
Resume ==
    /\ calls # <<>>
    /\ Last(calls).at = "called"
    /\ ret.kind # "none"
    /\ \E f \in {IF ret.kind = "value" THEN push(frames[frame], ret.v)
                 ELSE frames[frame]} :
        /\ frames' = [frames EXCEPT ![frame] = f]
        /\ calls' = SetLast(calls,
                            after_dispatch(Last(calls),
                                           IF ret.kind = "raise"
                                           THEN "exception" ELSE "None", f))
    /\ last_exception' = IF ret.kind = "raise" THEN ret.exc ELSE last_exception
    /\ ret' = NoOutcome
    /\ UNCHANGED <<frame, return_value, result, runs, cur, hits, marks, seen>>

Next ==
    \/ \E in \in Inputs : RunCode(in, MaxRuns)
    \/ Dispatch
    \/ Call
    \/ Unwind
    \/ Exit(FALSE)
    \/ Resume

Spec == Init /\ [][Next]_vars

(***************************************************************************)
(* Properties.                                                             *)
(***************************************************************************)
\* a top-level run_code has completed and none is under way
Finished == calls = <<>> /\ runs > 0

\* what the host's x <op> y gives, as an outcome of run_code
HostOutcome(r) == IF r.exc # "None" THEN Raised(r.exc) ELSE Returned(r.v)

\* the operator of an arithmetic program
ArithName(cv) ==
    IF cv.c = "legacy" THEN BinarySuffix[LegacyNames[cv.n]]
    ELSE BINARY_OPS[cv.n + 1]

\* the arithmetic programs whose operator the host defines on integers
IsArith(cv) ==
    \/ cv.c = "legacy"
    \/ cv.c = "binop" /\ cv.n \in 0..12 /\ BINARY_OPS[cv.n + 1] # "MATMUL"

\* C1: a program that pushes a, then b, applies one binary arithmetic
\* instruction (legacy BINARY_<OP> or BINARY_OP with an operator index) and
\* returns, makes run_code return a <op> b, a the left operand and b the
\* right one, for every operator: sub(10, 3) is 7, 10 / 2 is 5.
C1_OperandOrder ==
    (Finished /\ IsArith(cur.code)) =>
        result = HostOutcome(HostBinary(ArithName(cur.code),
                                        cur.callargs[StrV("x")],
                                        cur.callargs[StrV("y")]))

\* 0 + 1 + ... + (n - 1)
SumTo(n) == (n * (n - 1)) \div 2

\* C2: for every N >= 0 the loop program over N items without a break runs
\* all N iterations: run_code returns the sum of the items, and the block
\* stack is empty when the RETURN_VALUE executes.
C2_LoopSum ==
    (cur.code.c = "loop" /\ cur.code.d = -1) =>
        /\ Finished => result = Returned(IntV(SumTo(cur.code.n)))
        /\ (calls # <<>> /\ frames[1].last_instruction = LoopE(-1) + 3)
                => frames[1].block_stack = <<>>

\* the frame at depth m.depth stands at the instruction that follows the
\* loop entered at mark m
AfterLoop(m) ==
    /\ m.depth <= Len(frames)
    /\ frames[m.depth].last_instruction = m.target

\* C3: in a loop program (SETUP_LOOP, GET_ITER, FOR_ITER, a stack-neutral
\* body, a jump back, POP_BLOCK), whenever execution reaches the instruction
\* following the loop, by exhaustion of the iterator or by break, the
\* operand stack is as high as it was immediately before the loop's
\* SETUP_LOOP executed.
C3_LoopStackNeutral ==
    cur.code.c = "loop" =>
        \A m \in marks :
            AfterLoop(m) => Len(frames[m.depth].stack) = m.height

\* C3 witness: a loop left by break after a full iteration, one item below
\* the loop on the stack
C3_LoopLeftByBreak ==
    \E m \in marks :
        /\ AfterLoop(m)
        /\ cur.code.c = "loop" /\ cur.code.d = 1 /\ cur.code.n > 1
        /\ BagIn(<<1, LoopL(1) - 1>>, hits)
        /\ m.height = 1
        /\ Len(frames[m.depth].stack) = m.height

\* a break signal is pending in the current frame, whose innermost block is
\* a loop block
BreakOnLoop ==
    /\ calls # <<>>
    /\ Last(calls).at = "unwind"
    /\ Last(calls).why = "break"
    /\ Last(frames[frame].block_stack).type = "loop"

C4_BreakStep ==
    BreakOnLoop =>
        LET f == frames[frame]
            b == Last(f.block_stack)
        IN  /\ frames'[frame].block_stack = Front(f.block_stack)
            /\ frames'[frame].last_instruction = b.handler
            /\ Last(calls').why = "None"
            /\ frame' = frame
            /\ Len(frames') = Len(frames)
            /\ Len(calls') = Len(calls)
            /\ \E m \in marks :
                /\ m.depth = frame
                /\ m.target = b.handler
                /\ Len(frames'[frame].block_stack) = m.blocks

\* C4: on a break signal with a loop block innermost, the unwinder pops
\* exactly that block, sets the instruction pointer to the block's loop-exit
\* target, consumes the signal (no signal is left and the same frame stays
\* the running one) and leaves the block stack as deep as it was immediately
\* before the loop's SETUP_LOOP executed.
C4_BreakLeavesLoop == [][C4_BreakStep]_vars

\* C4 witness: the break of a loop program has been unwound; the frame
\* stands at the loop's exit with no block and no signal
C4_BreakUnwound ==
    /\ cur.code.c = "loop" /\ cur.code.d = 1
    /\ calls # <<>>
    /\ BagIn(<<1, LoopL(1) - 1>>, hits)
    /\ Last(calls).why = "None"
    /\ Last(calls).at = "loop"
    /\ frames[1].last_instruction = LoopE(1)
    /\ frames[1].block_stack = <<>>

\* C5: the body of a finally block executes exactly once per entry into its
\* guarded region, whether the region completes normally, returns or
\* faults.
C5_FinallyOnce ==
    (Finished /\ cur.code.c = "finally") =>
        CopiesIn(<<1, FinallyH(cur.code.n)>>, hits) = 1

\* C6: a program that faults inside a try region whose handler returns a
\* value does not fault: run_code returns the handler's value, and no fault
\* is recorded as last observed once the handler has completed.
C6_HandlerReturns ==
    (Finished /\ cur.code.c = "except") =>
        /\ result = Returned(IntV(42))
        /\ last_exception = "None"

\* the run of a called frame has ended with an exception signal that no
\* block of the frame consumed
CalleeFaulted ==
    /\ Len(calls) > 1
    /\ Last(calls).at = "end"
    /\ Last(calls).why = "exception"

\* a call instruction is handed the exception its callee's run raised
CallFaulted ==
    /\ calls # <<>>
    /\ Last(calls).at = "called"
    /\ ret.kind = "raise"

C7_Step ==
    /\ CalleeFaulted =>
        /\ frames' = Front(frames)
        /\ frame' = Len(frames) - 1
        /\ calls' = Front(calls)
        /\ ret' = Raised(last_exception)
        /\ UNCHANGED <<last_exception, return_value, hits>>
    /\ CallFaulted =>
        /\ frames' = frames
        /\ Len(calls') = Len(calls)
        /\ Last(calls').why = "exception"
        /\ last_exception' = ret.exc
        /\ Last(calls').at = IF frames[frame].block_stack # <<>>
                             THEN "unwind" ELSE "end"
        /\ hits' = hits
    /\ Len(frames') < Len(frames) =>
        /\ frames' = Front(frames)
        /\ Last(calls).at = "end"
    /\ (/\ calls # <<>>
        /\ Last(calls).why = "exception"
        /\ Len(calls') = Len(calls)
        /\ Last(calls').why = "None") =>
            Last(frames[frame].block_stack).type \in {"setup-except", "finally"}
    /\ (calls # <<>> /\ hits' # hits) => Last(calls).why = "None"

\* C7: when a called frame's run ends with an unconsumed exception signal,
\* the frame is popped before anything else; the caller's call instruction
\* then reports an exception signal with the same fault, which goes through
\* the caller's own block stack; frames are popped one at a time, last in
\* first out; and a frame with a pending exception signal executes no
\* instruction unless one of its blocks consumed the signal.
C7_FaultPropagates == [][C7_Step]_vars

\* C7 witness: a fault raised two calls deep has come back to the outermost
\* caller, whose loop block is about to be unwound for it
C7_FaultReachedCaller ==
    /\ cur.code.c = "callmid" /\ cur.code.n = 1 /\ cur.code.d = 1
    /\ BagIn(<<3, 6>>, hits)
    /\ Len(calls) = 1
    /\ Len(frames) = 1
    /\ calls[1].why = "exception"
    /\ calls[1].at = "unwind"
    /\ last_exception = "ZeroDivisionError"
    /\ \A h \in BagToSet(hits) : h[1] = 1 => h[2] <= WrapCallAt(1)

RerunInputs ==
    {Input(CodeV("breakout", 0, 0), EmptyMap),
     Input(CodeV("legacy", 6, 0), XY(10, 3)),
     Input(CodeV("callpair", 2, 0), XY(3, 0)),
     Input(CodeV("loop", 2, 1), EmptyMap),
     Input(CodeV("loop", MaxItems, -1), EmptyMap)}

NextRerun ==
    \/ \E in \in RerunInputs : RunCode(in, MaxReruns)
    \/ Dispatch
    \/ Call
    \/ Unwind
    \/ Exit(TRUE)
    \/ Resume

SpecRerun == Init /\ [][NextRerun]_vars

\* C9: the outcome of a top-level run_code is a function of its inputs
\* only: whatever runs the VirtualMachine made before, the same code unit
\* with the same arguments and globals gives the same value or fault.
C9_SameInputSameOutcome ==
    \A a \in seen, b \in seen : a[1] = b[1] => a[2] = b[2]

\* the current frame is about to execute a call of a Function with fewer
\* positional arguments than its parameters without a default, or with more
\* than its parameters
ArityMismatch ==
    /\ calls # <<>>
    /\ Last(calls).at = "loop"
    /\ LET p == Next_parse
           st == frames[frame].stack
       IN  /\ p.byte_name \in CallNames
           /\ Len(p.argument) = 1
           /\ LET k == CallArgc(p.byte_name, p.argument[1])
              IN  /\ Len(st) > k
                  /\ st[Len(st) - k].t = "function"
                  /\ LET func == st[Len(st) - k]
                         argc == Code(FnCode(func)).co_argcount
                     IN  k > argc \/ k < argc - Len(func.s)

C10_Step ==
    ArityMismatch =>
        /\ Len(frames') = Len(frames)
        /\ frame' = frame
        /\ Len(calls') = Len(calls)
        /\ Last(calls').why = "exception"
        /\ last_exception' = "TypeError"
        /\ \A h \in BagToSet(hits') : h[1] <= frame

\* C10: a call instruction that gives a Function fewer positional arguments
\* than its required parameters, or more than its declared parameters,
\* faults at the call site: no frame is pushed, no instruction of the callee
\* executes, and the caller's dispatch reports an exception signal.
C10_ArityFault == [][C10_Step]_vars

\* C10 witness: a call with one argument of a function of two parameters
\* without defaults has faulted in the caller's frame
C10_TooFewArguments ==
    /\ cur.code.c = "callpair" /\ cur.code.n = 1 /\ cur.code.d = 0
    /\ BagIn(<<1, CallPairAt(1, 0)>>, hits)
    /\ Len(frames) = 1
    /\ Len(calls) = 1
    /\ calls[1].why = "exception"
    /\ last_exception = "TypeError"
    /\ \A h \in BagToSet(hits) : h[1] = 1

\* frame i is a callee's frame that has just been entered: it is on top of
\* the call stack and its run_frame has not dispatched anything yet
AtEntry(i) ==
    /\ i = Len(frames)
    /\ i > 1
    /\ Len(calls) = i
    /\ calls[i] = Act(0, "None", "loop")
    /\ frames[i].last_instruction = 0

\* the programs whose calls pass exactly as many arguments as the callee
\* has parameters: the locals x and y, in this order
ExactArity(cv) ==
    \/ cv.c = "callpair" /\ cv.n = 2
    \/ cv.c = "callmid"

\* the arguments bound to the parameters of the callee of frame i
BoundArguments(i) ==
    LET co == Code(frames[i].code_obj)
    IN  (StrV(co.co_varnames[1]) :> cur.callargs[StrV("x")])
            @@ (StrV(co.co_varnames[2]) :> cur.callargs[StrV("y")])

\* C11: a call of a Function with exactly its declared arity creates a
\* frame whose locals, at frame entry, are exactly the bound arguments: one
\* entry per parameter name, mapped to the passed value, and no other entry.
C11_LocalsAreArguments ==
    \A i \in 1..Len(frames) :
        (AtEntry(i) /\ ExactArity(cur.code)) =>
            frames[i].local_names = BoundArguments(i)

\* C12: LOAD_FAST consults the frame's locals only: a name that was never
\* assigned in the frame and is no call argument is absent from the locals,
\* so reading it is an unbound-local fault, never an undefined-name fault,
\* and it is never resolved through the globals or the builtins; a call
\* argument reads as the passed value.
C12_LoadFastLocalsOnly ==
    (Finished /\ cur.code.c = "fast") =>
        LET name == StrV(FastNames[cur.code.n + 1])
        IN  IF name \in DOMAIN cur.callargs
            THEN result = Returned(cur.callargs[name])
            ELSE result = Raised("UnboundLocalError")

(***************************************************************************)
(* The unwinder on every kind of block.  The only handler that pushes a    *)
(* block is byte_SETUP_LOOP, so a run of a code unit meets loop blocks     *)
(* only; here the host drives one frame through the VirtualMachine's own   *)
(* methods push, push_block and manage_block_stack, and reports a signal   *)
(* the way dispatch does.                                                  *)
(***************************************************************************)
MaxStack == 2

MaxBlocks == 2

MaxSignals == 2

\* the block kinds push_block is called with, and the signals of dispatch
BlockKinds == {"loop", "setup-except", "finally"}

Signals == {"break", "continue", "return", "exception"}

\* the frame the host drives: its code unit is not executed
UnwinderInput == Input(CodeV("blocks", 0, 0), EmptyMap)

AtLoop == calls # <<>> /\ Last(calls).at = "loop"

\* VirtualMachine.push of one value
PushValue ==
    /\ AtLoop
    /\ Len(frames[frame].stack) < MaxStack
    /\ frames' = [frames EXCEPT
                    ![frame] = push(@, IntV(Len(@.stack) + 1))]
    /\ UNCHANGED <<frame, return_value, last_exception, calls, ret, result,
                   runs, cur, hits, marks, seen>>

\* VirtualMachine.push_block(kind, handler)
PushBlock(kind) ==
    /\ AtLoop
    /\ Len(frames[frame].block_stack) < MaxBlocks
    /\ frames' = [frames EXCEPT
                    ![frame] = push_block(@, kind,
                                          3 * (Len(@.block_stack) + 1))]
    /\ UNCHANGED <<frame, return_value, last_exception, calls, ret, result,
                   runs, cur, hits, marks, seen>>

\* dispatch returns the signal why: 'exception' with last_exception set,
\* 'return' with return_value set to the value, 'continue' with
\* return_value set to the jump target; then run_frame's tests
Signal(why) ==
    /\ AtLoop
    /\ Last(calls).instruction_count < MaxSignals
    /\ return_value' = CASE why = "return" -> IntV(7)
                         [] why = "continue" -> IntV(9)
                         [] OTHER -> return_value
    /\ last_exception' = IF why = "exception" THEN "ValueError"
                         ELSE last_exception
    /\ calls' = SetLast(calls, after_dispatch(Last(calls), why, frames[frame]))
    /\ UNCHANGED <<frames, frame, ret, result, runs, cur, hits, marks, seen>>

NextUnwinder ==
    \/ RunCode(UnwinderInput, MaxRuns)
    \/ PushValue
    \/ \E kind \in BlockKinds : PushBlock(kind)
    \/ \E why \in Signals : Signal(why)
    \/ Unwind
    \/ Exit(FALSE)

SpecUnwinder == Init /\ [][NextUnwinder]_vars

\* the (block kind, signal) pairs the claim lists as consumed, and the
\* pairs manage_block_stack consumes
ListedPairs ==
    {<<"loop", "continue">>, <<"loop", "break">>,
     <<"setup-except", "exception">>, <<"finally", "exception">>,
     <<"finally", "return">>, <<"finally", "continue">>}

ConsumedPairs == ListedPairs \cup {<<"finally", "break">>}

\* one pass of the unwinder: a pair of `pairs` is consumed; for any other
\* pair the block is popped, the pointer stays, the operand stack only
\* shrinks, and the same signal goes on to the next block or ends the run
UnwindStep(pairs) ==
    (calls # <<>> /\ Last(calls).at = "unwind") =>
        LET f == frames[frame]
            b == Last(f.block_stack)
            w == Last(calls).why
            g == frames'[frame]
        IN  IF <<b.type, w>> \in pairs
            THEN Last(calls').why = "None"
            ELSE /\ g.block_stack = Front(f.block_stack)
                 /\ g.last_instruction = f.last_instruction
                 /\ Len(g.stack) <= Len(f.stack)
                 /\ g.stack = SubSeq(f.stack, 1, Len(g.stack))
                 /\ Last(calls').why = w
                 /\ Last(calls').at =
                        IF g.block_stack = <<>> THEN "end" ELSE "unwind"

ContinueOnLoop ==
    /\ calls # <<>>
    /\ Last(calls).at = "unwind"
    /\ Last(calls).why = "continue"
    /\ Last(frames[frame].block_stack).type = "loop"

ContinuePopsLoop ==
    ContinueOnLoop =>
        LET f == frames[frame]
            b == Last(f.block_stack)
            g == frames'[frame]
        IN  /\ g.block_stack = Front(f.block_stack)
            /\ g.stack = SubSeq(f.stack, 1,
                                IF Len(f.stack) > b.stack_height
                                THEN b.stack_height ELSE Len(f.stack))
            /\ g.last_instruction = return_value.n
            /\ Last(calls').why = "None"

ContinueKeepsLoop ==
    ContinueOnLoop =>
        LET f == frames[frame]
            g == frames'[frame]
        IN  /\ g.block_stack = f.block_stack
            /\ g.stack = f.stack
            /\ g.last_instruction = return_value.n
            /\ Last(calls').why = "None"
            /\ return_value' = return_value

HasHandler(byte_name) ==
    byte_name \in OneArgHandlers \cup NoArgHandlers \cup OptArgHandlers

\* the names without a method that dispatch runs as operators
OperatorNames == DOMAIN UnarySuffix \cup DOMAIN BinarySuffix

\* a pass of the loop for an instruction whose name is in `names` and has
\* no byte_ method: no signal, the frame as the decoder left it, the VM's
\* last_exception and return_value as they were, no frame pushed or popped,
\* and the instruction counted
IgnoredStep(names) ==
    (/\ calls # <<>>
     /\ Last(calls).at = "loop"
     /\ ~HasHandler(Next_parse.byte_name)
     /\ Next_parse.byte_name \in names) =>
        /\ frames' = [frames EXCEPT ![frame] = Next_parse.f]
        /\ frame' = frame
        /\ last_exception' = last_exception
        /\ return_value' = return_value
        /\ Len(calls') = Len(calls)
        /\ Last(calls').why = "None"
        /\ Last(calls').instruction_count = Last(calls).instruction_count + 1

\* a pass of the loop for an operator name without a byte_ method: the
\* operand stack loses the operands and gains the result, or the pass
\* reports an exception
OperatorStep ==
    (/\ calls # <<>>
     /\ Last(calls).at = "loop"
     /\ Next_parse.byte_name \in OperatorNames) =>
        LET k == IF Next_parse.byte_name \in DOMAIN UnarySuffix THEN 0 ELSE 1
        IN  \/ /\ Last(calls').why = "None"
               /\ Len(frames[frame].stack) > k
               /\ Len(frames'[frame].stack) = Len(frames[frame].stack) - k
               /\ Front(frames'[frame].stack)
                    = SubSeq(frames[frame].stack, 1,
                             Len(frames[frame].stack) - k - 1)
            \/ /\ Last(calls').why = "exception"
               /\ last_exception' # "None"

AllNames == {opname[b] : b \in 0..255}

\* C15: for every opcode without an explicit handler, whatever its name,
\* dispatch reports no signal and leaves the frame's operand stack, block
\* stack and pointer and the VM's last-observed fault and pending return
\* value unchanged; execution continues with the next instruction.
C15_UnhandledIgnored == [][IgnoredStep(AllNames)]_vars

\* C15, amended: that holds for the opcodes without a handler whose name
\* does not start with UNARY_ or BINARY_; those are run as the operator
\* their name gives, on the operand stack.
C15_UnhandledIgnoredOrOperator ==
    [][IgnoredStep(AllNames \ OperatorNames) /\ OperatorStep]_vars

\* C15 witness: INPLACE_ADD, which has no handler, has been passed over
\* with both operands still on the stack
C15_InplaceAddIgnored ==
    /\ cur.code.c = "odd"
    /\ OddText[cur.code.n][1] = "INPLACE_ADD"
    /\ BagIn(<<1, OddAt>>, hits)
    /\ calls # <<>>
    /\ Last(calls) = Act(3, "None", "loop")
    /\ frames[1].stack = <<IntV(5), IntV(3)>>
    /\ frames[1].last_instruction = OddAt + 1

\* C16: decoding an operand-taking opcode whose operand is cut short by the
\* end of the stream returns the opcode with operand zero, raises no fault,
\* and does not partially advance the pointer: afterwards the pointer is
\* where it was or past the whole instruction, never between the opcode and
\* the end of its operand.
C16_NoPartialAdvance ==
    (cur.code.c = "short" /\ frames # <<>>) =>
        /\ ~(/\ frames[1].last_instruction > ShortAt
             /\ frames[1].last_instruction < Len(Code(cur.code).co_code))
        /\ calls[1].instruction_count = 2 =>
                /\ frames[1].stack = <<IntV(5), IntV(0)>>
                /\ calls[1].why = "None"

\* C17: a constant-index opcode whose operand is no valid index into the
\* constant pool is a fatal decode fault: the run ends as faulted and no
\* value is pushed for that instruction.
C17_BadConstIndexFaults ==
    /\ (cur.code.c = "badconst" /\ frames # <<>>) => frames[1].stack = <<>>
    /\ (cur.code.c = "badconst" /\ Finished) => result.kind = "raise"

\* the number of instructions dispatched in this run by the frame at call
\* depth d
Dispatched(d) ==
    BagCardinality([h \in {x \in BagToSet(hits) : x[1] = d} |-> hits[h]])

\* C18: the instruction ceiling is 100: a single frame's driver loop
\* dispatches at most 100 instructions before its run ends, and a run ended
\* by the ceiling ends silently, without raising a fault.
C18_AtMostHundred ==
    /\ \A d \in 1..3 : Dispatched(d) <= InstructionLimit
    /\ \A i \in 1..Len(calls) :
            (calls[i].at = "end"
                /\ calls[i].instruction_count > InstructionLimit)
                => calls[i].why = "None"

(***************************************************************************)
(* Runs of code units without a call instruction.  run_code is one         *)
(* sequential call of the host: once made, it takes its steps until it     *)
(* returns or raises, which is the fairness stated here.                   *)
(***************************************************************************)
\* programs without a call instruction: loops that end, break or are cut
\* by the ceiling, guarded regions, the edge and probe programs, and the
\* divisions, one of which faults
NoCallInputs ==
    {Input(CodeV("loop", n, d), EmptyMap) :
        n \in {0, 2, MaxItems}, d \in BreakAts}
    \cup {Input(CodeV("legacy", 4, 0), XY(p[1], p[2])) : p \in OperandPairs}
    \cup BlockInputs \cup EdgeInputs \cup ProbeInputs

NextLive ==
    \/ \E in \in NoCallInputs : RunCode(in, MaxRuns)
    \/ Dispatch
    \/ Unwind
    \/ Exit(FALSE)

SpecLive ==
    Init /\ [][NextLive]_vars /\ WF_vars(Dispatch \/ Unwind \/ Exit(FALSE))

\* C19: every run of a code unit without a call instruction eventually
\* ends, returned, faulted or halted by the instruction ceiling, whatever
\* the instruction stream: backward jumps, loops over iterators that never
\* end, streams that run off their end.
C19_RunEnds ==
    (calls # <<>>) ~> (calls = <<>> /\ result.kind \in {"value", "raise"})

\* C19 witness: the loop over an iterator that never ends has been halted
\* by the ceiling, inside the loop
C19_ForeverHalted ==
    /\ Finished
    /\ cur.code.c = "forever"
    /\ result = Returned(NoneV)
    /\ Dispatched(1) > InstructionLimit
    /\ ~BagIn(<<1, 14>>, hits)

\* the operand stack, block stack and pointer of a frame
Machine(f) == <<f.stack, f.block_stack, f.last_instruction>>

\* a step leaves every frame below the top of the call stack as it is, and
\* changes the operand stack of a frame that waits in a call only by
\* pushing the callee's result, once the callee's frame has been popped
IsolationStep ==
    /\ \A i \in 1..Len(frames) :
            (i < Len(frames) /\ i <= Len(frames'))
                => Machine(frames'[i]) = Machine(frames[i])
    /\ \A i \in 1..Len(calls) :
            (/\ calls[i].at = "called"
             /\ i <= Len(frames')
             /\ frames'[i].stack # frames[i].stack)
                => /\ i = Len(frames)
                   /\ ret.kind = "value"
                   /\ frames'[i].stack = Append(frames[i].stack, ret.v)

\* C20: while a callee frame is on top of the call stack, every other frame
\* has an unchanged operand stack, block stack and pointer; the caller's
\* operand stack changes only when the call instruction pushes the callee's
\* result after the callee has been popped.
C20_FramesIsolated == [][IsolationStep]_vars

\* C20 witness: a callee's callee has executed instructions while both
\* frames below it wait in their call instruction, each inside a loop block
C20_NestedCalleeRunning ==
    /\ Len(frames) = 3
    /\ BagIn(<<3, 3>>, hits)
    /\ calls[1].at = "called"
    /\ calls[2].at = "called"
    /\ frames[1].block_stack # <<>>
    /\ frames[2].block_stack # <<>>
    /\ frames[1].last_instruction = WrapCallAt(1) + 3
    /\ frames[3].stack # <<>>

\* every block on every frame's block stack is a loop block
AllLoopBlocks ==
    \A i \in 1..Len(frames) :
        \A k \in 1..Len(frames[i].block_stack) :
            frames[i].block_stack[k].type = "loop"

\* a step keeps the block stacks to loop blocks; a pass of the unwinder on
\* an exception signal pops one block, takes no jump and leaves the signal
\* an exception; a frame whose loop was left with an exception has no block
\* left, and its run ends as a fault
LoopBlocksStep ==
    /\ AllLoopBlocks'
    /\ (/\ calls # <<>>
        /\ Last(calls).at = "unwind"
        /\ Last(calls).why = "exception") =>
            /\ Last(calls').why = "exception"
            /\ frames'[frame].block_stack = Front(frames[frame].block_stack)
            /\ frames'[frame].last_instruction
                    = frames[frame].last_instruction
    /\ (/\ calls # <<>>
        /\ Last(calls).at = "end"
        /\ Last(calls).why = "exception") =>
            /\ frames[frame].block_stack = <<>>
            /\ Len(frames') = Len(frames) - 1
            /\ IF Len(calls) = 1 THEN result'.kind = "raise"
               ELSE ret'.kind = "raise"
    /\ (/\ calls # <<>>
        /\ Len(calls') = Len(calls)
        /\ Last(calls).why # "exception"
        /\ Last(calls').why = "exception") =>
            Last(calls').at =
                IF frames'[frame].block_stack = <<>> THEN "end" ELSE "unwind"

\* C21: in every state reached by executing instructions through run_code
\* every block on every frame's block stack is a loop block; hence an
\* exception signal raised in a frame is never consumed by the frame's
\* block stack and always ends the frame's run as a fault, after all of the
\* frame's blocks have been popped.
C21_OnlyLoopBlocks == [][LoopBlocksStep]_vars

\* C21 witness: a frame that had pushed a loop block has left its loop with
\* an exception signal and no block, about to end as a fault
C21_FaultLeftLoop ==
    /\ calls # <<>>
    /\ Last(calls).at = "end"
    /\ Last(calls).why = "exception"
    /\ frames[frame].block_stack = <<>>
    /\ \E m \in marks : m.depth = frame

====
